---- MODULE Spec2Model ----
(***************************************************************************)
(* State-machine model of larg4::ParticleListActionService                 *)
(* (src/larg4/pluginActions/ParticleListAction.cc).                        *)
(*                                                                         *)
(* The service is driven by Geant4: beginOfEventAction, then for each      *)
(* track preUserTrackingAction, userSteppingAction*, postUserTrackingAction*)
(* and finally endOfEventAction.  One action of the model is one whole     *)
(* handler call.  Strings are sequences of one-character strings so that   *)
(* std::string::find / compare are computed, not assumed.                  *)
(***************************************************************************)
EXTENDS Integers, Sequences, FiniteSets, TLC

(***************************************************************************)
(* Bounds of the exploration.                                              *)
(***************************************************************************)
MaxEvents == 2
\* tracks handed over in one run, and in one event, at most
MaxTracks == 3
\* tracks of a run in which the trajectory policy is varied
MaxTrajTracks == 2
\* steps of one track, at most
MaxSteps == 2

(***************************************************************************)
(* Program constants.                                                      *)
(***************************************************************************)
\* std::numeric_limits<int>::min()
NoParticleId == -2147483647 - 1
NoGeneratedParticleIndex == -1
NullPtr == 0

(***************************************************************************)
(* Strings.                                                                *)
(***************************************************************************)
s_primary == <<"p","r","i","m","a","r","y">>
s_primaryBackground == <<"p","r","i","m","a","r","y","B","a","c","k","g","r","o","u","n","d">>
s_unknown == <<"u","n","k","n","o","w","n">>
s_conv == <<"c","o","n","v">>
s_LowEnConversion == <<"L","o","w","E","n","C","o","n","v","e","r","s","i","o","n">>
s_Pair == <<"P","a","i","r">>
s_compt == <<"c","o","m","p","t">>
s_Compt == <<"C","o","m","p","t">>
s_Brem == <<"B","r","e","m">>
s_phot == <<"p","h","o","t">>
s_Photo == <<"P","h","o","t","o">>
s_Ion == <<"I","o","n">>
s_annihil == <<"a","n","n","i","h","i","l">>
s_Decay == <<"D","e","c","a","y">>
s_StepLimiter == <<"S","t","e","p","L","i","m","i","t","e","r">>
s_Transportation == <<"T","r","a","n","s","p","o","r","t","a","t","i","o","n">>
s_g1 == <<"g","1">>
s_g2 == <<"g","2">>
s_empty == <<>>

\* std::string::find(sub): first position (1-based) of sub in s, 0 for npos
StrFind(s, sub) ==
  LET hits == {i \in 1..(Len(s) + 1) :
                 /\ i + Len(sub) - 1 <= Len(s)
                 /\ SubSeq(s, i, i + Len(sub) - 1) = sub}
  IN IF hits = {} THEN 0 ELSE CHOOSE i \in hits : \A j \in hits : i <= j

StrContains(s, sub) == StrFind(s, sub) # 0

(***************************************************************************)
(* std::map helpers: maps are TLA+ functions over their key set.           *)
(***************************************************************************)
EmptyMap == [k \in {} |-> 0]

MapPut(m, k, v) == [x \in (DOMAIN m) \cup {k} |-> IF x = k THEN v ELSE m[x]]

MapErase(m, k) == [x \in (DOMAIN m) \ {k} |-> m[x]]

\* std::map::operator[] as an rvalue: the mapped value, default if absent
MapAt(m, k, dflt) == IF k \in DOMAIN m THEN m[k] ELSE dflt

\* std::map::operator[] side effect: inserts a default entry if absent
MapTouch(m, k, dflt) == IF k \in DOMAIN m THEN m ELSE MapPut(m, k, dflt)

SetMax(S) == CHOOSE x \in S : \A y \in S : y <= x

\* abs() of a 32-bit int; abs(INT_MIN) wraps to INT_MIN
Abs(x) == IF x = -2147483647 - 1 THEN x ELSE IF x < 0 THEN -x ELSE x

\* ascending sequence of the elements of a finite set of integers (map order)
RECURSIVE SortedSeq(_)
SortedSeq(S) ==
  IF S = {} THEN <<>>
  ELSE LET lo == CHOOSE x \in S : \A y \in S : x <= y
       IN <<lo>> \o SortedSeq(S \ {lo})


(***************************************************************************)
(* Configuration: the fhicl parameter sets explored and the constructor.   *)
(***************************************************************************)
\* value of the EnergyCut parameter; energies are drawn around it
EnergyCut == 1

DefaultNotStoredPhysics ==
  <<s_conv, s_LowEnConversion, s_Pair, s_compt, s_Compt, s_Brem, s_phot,
    s_Photo, s_Ion, s_annihil>>

ParameterSets ==
  [EnergyCut : {EnergyCut},
   storeTrajectories : BOOLEAN,
   keepGenTrajectories : {<<>>, <<s_g1>>},
   keepEMShowerDaughters : BOOLEAN,
   NotStoredPhysics : {<<>>, <<s_Decay>>},
   keepOnlyPrimaryFullTrajectories : BOOLEAN,
   SparsifyTrajectories : BOOLEAN,
   StoreDroppedMCParticles : BOOLEAN]

\* the member initialisers and the body of the constructor
Constructor(p) ==
  [fenergyCut |-> p.EnergyCut,
   fstoreTrajectories |-> p.storeTrajectories,
   fkeepGenTrajectories |-> p.keepGenTrajectories,
   fKeepEMShowerDaughters |-> p.keepEMShowerDaughters,
   fNotStoredPhysics |->
     IF ~p.keepEMShowerDaughters /\ p.NotStoredPhysics = <<>>
     THEN DefaultNotStoredPhysics ELSE p.NotStoredPhysics,
   fkeepOnlyPrimaryFullTraj |-> p.keepOnlyPrimaryFullTrajectories,
   fSparsifyTrajectories |-> p.SparsifyTrajectories,
   fStoreDroppedMCParticles |-> p.StoreDroppedMCParticles]

\* fNotStoredCounterUMap as the constructor leaves it
ConstructorCounters(p) ==
  IF ~p.keepEMShowerDaughters
  THEN LET l == Constructor(p).fNotStoredPhysics
       IN [k \in {l[i] : i \in 1..Len(l)} |-> 0]
  ELSE EmptyMap

\* the truth-record handles of an event: generator label and number of
\* MCTruth objects per handle
OneGenerator == <<[label |-> s_g1, size |-> 1]>>
TwoGenerators == <<[label |-> s_g1, size |-> 1], [label |-> s_g2, size |-> 1]>>

(***************************************************************************)
(* Scopes of the exploration.  A run is drawn from one scope, which fixes   *)
(* the parameter sets, the truth-record handles and the tracks and steps   *)
(* Geant4 produces.  A primary is (has PrimaryParticleInformation, MCTruth *)
(* process, kinetic energy, proper time); a secondary is (creator process, *)
(* kinetic energy, PDG code, proper time).                                 *)
(***************************************************************************)
DefaultTrajectories(p) ==
  /\ p.storeTrajectories
  /\ p.keepGenTrajectories = <<>>
  /\ ~p.keepOnlyPrimaryFullTrajectories
  /\ ~p.SparsifyTrajectories

\* filtering and parentage: every way a secondary can be treated
GenealogyScope ==
  [params |-> {p \in ParameterSets :
                 /\ DefaultTrajectories(p)
                 /\ p.NotStoredPhysics = <<>>},
   mcls |-> {OneGenerator},
   maxTracks |-> MaxTracks,
   maxSteps |-> 1,
   causal |-> TRUE,
   primaries |-> {<<TRUE, s_primary, EnergyCut, 0>>,
                  <<TRUE, s_phot, EnergyCut - 1, 0>>,
                  <<TRUE, s_primary, EnergyCut, 1>>},
   secondaries |-> {<<s_phot, EnergyCut - 1, 11, 0>>,
                    <<s_Decay, EnergyCut - 1, 11, 0>>,
                    <<s_phot, EnergyCut, 11, 0>>,
                    <<s_Decay, EnergyCut, 11, 0>>,
                    <<s_Decay, EnergyCut - 1, 0, 0>>,
                    <<s_Decay, EnergyCut, 11, 1>>,
                    <<s_phot, EnergyCut, 11, 1>>},
   stepProcs |-> {s_Transportation}]

\* trajectory policy: every setting of the trajectory parameters, every
\* primary label, both generators, every kind of step
TrajectoryScope ==
  [params |-> {p \in ParameterSets :
                 /\ p.keepEMShowerDaughters
                 /\ p.NotStoredPhysics = <<>>
                 /\ ~p.StoreDroppedMCParticles},
   mcls |-> {TwoGenerators},
   maxTracks |-> MaxTrajTracks,
   maxSteps |-> MaxSteps,
   causal |-> TRUE,
   primaries |-> {<<TRUE, s_primary, EnergyCut, 0>>,
                  <<TRUE, s_primaryBackground, EnergyCut, 0>>,
                  <<TRUE, s_Decay, EnergyCut, 0>>},
   secondaries |-> {<<s_Decay, EnergyCut, 11, 0>>},
   stepProcs |-> {s_empty, s_StepLimiter, s_Transportation}]

\* streams that do not respect the order parent-before-child
DisorderScope ==
  [params |-> {p \in ParameterSets :
                 /\ DefaultTrajectories(p)
                 /\ p.NotStoredPhysics = <<>>
                 /\ ~p.StoreDroppedMCParticles},
   mcls |-> {OneGenerator},
   maxTracks |-> MaxTracks,
   maxSteps |-> 0,
   causal |-> FALSE,
   primaries |-> {<<TRUE, s_primary, EnergyCut, 0>>},
   secondaries |-> {<<s_phot, EnergyCut, 11, 0>>,
                    <<s_Decay, EnergyCut - 1, 11, 0>>,
                    <<s_Decay, EnergyCut, 11, 0>>},
   stepProcs |-> {s_Transportation}]

\* a handle that holds two MCTruth objects
OneGeneratorTwoTruths == <<[label |-> s_g1, size |-> 2]>>

\* finalization: events without truth records, handles with more than one
\* MCTruth object, primaries without PrimaryParticleInformation
FinalizationScope ==
  [params |-> {p \in ParameterSets :
                 /\ ~p.keepOnlyPrimaryFullTrajectories
                 /\ ~p.SparsifyTrajectories
                 /\ p.NotStoredPhysics = <<>>},
   mcls |-> {<<>>, OneGeneratorTwoTruths},
   maxTracks |-> MaxTrajTracks,
   maxSteps |-> 1,
   causal |-> TRUE,
   primaries |-> {<<TRUE, s_primary, EnergyCut, 0>>,
                  <<FALSE, s_empty, EnergyCut, 0>>},
   secondaries |-> {<<s_Decay, EnergyCut, 11, 0>>,
                    <<s_Decay, EnergyCut - 1, 11, 0>>,
                    <<s_phot, EnergyCut, 11, 0>>},
   stepProcs |-> {s_Transportation}]

ScopeNames == {"genealogy", "trajectory", "disorder", "finalization"}

Scope(name) ==
  CASE name = "genealogy" -> GenealogyScope
    [] name = "trajectory" -> TrajectoryScope
    [] name = "disorder" -> DisorderScope
    [] name = "finalization" -> FinalizationScope

(***************************************************************************)
(* State.                                                                  *)
(***************************************************************************)
VARIABLES
  cfg,                      \* configuration members set by the constructor
  fMCLists,                 \* truth-record handles
  fCurrentParticle,         \* ParticleInfo_t: particle, keepFullTrajectory, truthIndex
  heap,                     \* live simb::MCParticle objects, by address
  fParticleList,            \* sim::ParticleList: track ID -> MCParticle*
  fdroppedParticleList,     \* *fdroppedParticleList (when allocated)
  fParentIDMap,
  fTargetIDMap,
  fMCTIndexMap,
  fMCTPrimProcessKeepMap,
  fPrimaryTruthMap,
  fMCTIndexToGeneratorMap,
  fNotStoredCounterUMap,
  fdroppedTracksMap,
  fCurrentTrackID,
  fTrackIDOffset,
  partCol_,                 \* output: retained particles
  droppedCol_,              \* output: ancestry map
  droppedPartCol_,          \* output: reduced dropped particles
  tpassn_,                  \* output: truth <-> particle associations
  particleList,             \* endOfEventAction's local list as YieldList returned it
  droppedParticleList,      \* endOfEventAction's local list of dropped particles
  offsetAtEntry,            \* fTrackIDOffset when the handler that ran last was entered
  g4,                       \* the transport engine: phase, counters, current step
  hist,                     \* log of this event's preUserTrackingAction calls
  prevMax,                  \* highest track ID retained by the event finalized last
  lastOp                    \* the handler that ran last and how it ended

vars ==
  <<cfg, fMCLists, fCurrentParticle, heap, fParticleList, fdroppedParticleList,
    fParentIDMap, fTargetIDMap, fMCTIndexMap, fMCTPrimProcessKeepMap,
    fPrimaryTruthMap, fMCTIndexToGeneratorMap, fNotStoredCounterUMap,
    fdroppedTracksMap, fCurrentTrackID, fTrackIDOffset, partCol_, droppedCol_,
    droppedPartCol_, tpassn_, particleList, droppedParticleList, offsetAtEntry,
    g4, hist, prevMax, lastOp>>

\* ParticleInfo_t::clear()
ClearedParticle ==
  [particle |-> NullPtr, keepFullTrajectory |-> FALSE,
   truthIndex |-> NoGeneratedParticleIndex]

\* ParticleInfo_t::hasParticle()
hasParticle(ci) == ci.particle # NullPtr

\* ParticleInfo_t::isPrimary()
isPrimary(ci) == ci.truthIndex # NoGeneratedParticleIndex

\* sim::ParticleList::KnownParticle(id): find(abs(id)) != end()
KnownParticle(list, id) == Abs(id) \in DOMAIN list

Init ==
  \E sc \in ScopeNames : \E p \in Scope(sc).params, mcl \in Scope(sc).mcls :
    /\ cfg = Constructor(p)
    /\ fMCLists = mcl
    /\ fCurrentParticle = ClearedParticle
    /\ heap = EmptyMap
    /\ fParticleList = EmptyMap
    /\ fdroppedParticleList = EmptyMap
    /\ fParentIDMap = EmptyMap
    /\ fTargetIDMap = EmptyMap
    /\ fMCTIndexMap = EmptyMap
    /\ fMCTPrimProcessKeepMap = EmptyMap
    /\ fPrimaryTruthMap = EmptyMap
    /\ fMCTIndexToGeneratorMap = EmptyMap
    /\ fNotStoredCounterUMap = ConstructorCounters(p)
    /\ fdroppedTracksMap = EmptyMap
    /\ fCurrentTrackID = NoParticleId
    /\ fTrackIDOffset = 0
    /\ partCol_ = <<>>
    /\ droppedCol_ = EmptyMap
    /\ droppedPartCol_ = <<>>
    /\ tpassn_ = <<>>
    /\ particleList = EmptyMap
    /\ droppedParticleList = EmptyMap
    /\ offsetAtEntry = 0
    /\ g4 = [scope |-> sc, phase |-> "constructed", events |-> 0, tracks |-> 0,
             admits |-> 0, steps |-> 0, recordable |-> 0, endRecorded |-> 0,
             pointsAtEnd |-> 0, postStepProcess |-> s_empty]
    /\ hist = EmptyMap
    /\ prevMax = 0
    /\ lastOp = "constructor"

(***************************************************************************)
(* beginOfEventAction                                                      *)
(***************************************************************************)
\* the generator keep-map built by the loop over fMCLists
GeneratorMap(c, mcl) ==
  [mcti \in 0..(Len(mcl) - 1) |->
     LET generator_name == mcl[mcti + 1].label
         customKeepTraj == c.fkeepGenTrajectories # <<>>
         keepGen ==
           /\ c.fstoreTrajectories
           /\ \/ ~customKeepTraj
              \/ \E i \in 1..Len(c.fkeepGenTrajectories) :
                   generator_name = c.fkeepGenTrajectories[i]
     IN [first |-> generator_name, second |-> keepGen]]

\* lines 138-150 without the clearing of fParentIDMap and fTargetIDMap
ClearedMaps_StaleParents ==
  [fParticleList |-> EmptyMap, fParentIDMap |-> fParentIDMap,
   fTargetIDMap |-> fTargetIDMap, fMCTIndexMap |-> EmptyMap,
   fMCTPrimProcessKeepMap |-> EmptyMap, fPrimaryTruthMap |-> EmptyMap]

\* lines 138-150: the maps the handler clears
ClearedMaps ==
  [fParticleList |-> EmptyMap, fParentIDMap |-> EmptyMap,
   fTargetIDMap |-> EmptyMap, fMCTIndexMap |-> EmptyMap,
   fMCTPrimProcessKeepMap |-> EmptyMap, fPrimaryTruthMap |-> EmptyMap]

beginOfEventAction ==
  /\ g4.phase # "hung"
  /\ g4.events < MaxEvents
  /\ fCurrentParticle' = ClearedParticle
  /\ fParticleList' = ClearedMaps.fParticleList
  /\ fParentIDMap' = ClearedMaps.fParentIDMap
  /\ fTargetIDMap' = ClearedMaps.fTargetIDMap
  /\ fMCTIndexMap' = ClearedMaps.fMCTIndexMap
  /\ fMCTPrimProcessKeepMap' = ClearedMaps.fMCTPrimProcessKeepMap
  /\ fCurrentTrackID' = NoParticleId
  /\ fTrackIDOffset' = 0
  /\ fPrimaryTruthMap' = ClearedMaps.fPrimaryTruthMap
  /\ fMCTIndexToGeneratorMap' = GeneratorMap(cfg, fMCLists)
  /\ fNotStoredCounterUMap' = EmptyMap
  /\ fdroppedTracksMap' = EmptyMap
  /\ fdroppedParticleList' = EmptyMap
  \* the lists delete the particles they own; unreferenced ones are dropped too
  /\ heap' = EmptyMap
  /\ g4' = [g4 EXCEPT !.phase = "event", !.events = @ + 1, !.tracks = 0,
                      !.steps = 0, !.recordable = 0, !.endRecorded = 0,
                      !.pointsAtEnd = 0, !.postStepProcess = s_empty]
  /\ hist' = EmptyMap
  /\ prevMax' = IF g4.phase = "finalized" THEN prevMax ELSE 0
  /\ lastOp' = "beginOfEventAction"
  /\ offsetAtEntry' = fTrackIDOffset
  /\ UNCHANGED <<cfg, fMCLists, partCol_, droppedCol_, droppedPartCol_, tpassn_,
                 particleList, droppedParticleList>>


(***************************************************************************)
(* GetParentage                                                            *)
(***************************************************************************)
\* The while loop with the iterator at key k.  The loop is deterministic and
\* the map does not change while it runs, so it fails to terminate exactly
\* when it comes back to a key it has visited: loops = TRUE.
RECURSIVE ParentageWalk(_, _, _)
ParentageWalk(map, k, seen) ==
  LET parentid == map[k]
  IN IF parentid \notin DOMAIN map THEN [loops |-> FALSE, id |-> parentid]
     ELSE IF parentid \in seen THEN [loops |-> TRUE, id |-> parentid]
     ELSE ParentageWalk(map, parentid, seen \cup {parentid})

GetParentage(map, trackid) ==
  IF trackid \notin DOMAIN map THEN [loops |-> FALSE, id |-> NoParticleId]
  ELSE ParentageWalk(map, trackid, {trackid})

\* -1 * x in 32-bit int arithmetic
Negate(x) == IF x = NoParticleId THEN NoParticleId ELSE -x

\* std::set insertion into fdroppedTracksMap[key]
DroppedInsert(m, key, trackID) == MapPut(m, key, MapAt(m, key, {}) \cup {trackID})

(***************************************************************************)
(* preUserTrackingAction                                                   *)
(*                                                                         *)
(* The members the handler reads and writes are carried in a record m;     *)
(* m.status tells how the call ended: "stored", "notstore", "properTime",  *)
(* "energyCut" (the four returns), "throw" (exception) or "hang" (a call   *)
(* of GetParentage that does not return).                                  *)
(***************************************************************************)
Members ==
  [fCurrentParticle |-> fCurrentParticle, heap |-> heap,
   fParticleList |-> fParticleList, fdroppedParticleList |-> fdroppedParticleList,
   fParentIDMap |-> fParentIDMap, fTargetIDMap |-> fTargetIDMap,
   fMCTIndexMap |-> fMCTIndexMap, fMCTPrimProcessKeepMap |-> fMCTPrimProcessKeepMap,
   fMCTIndexToGeneratorMap |-> fMCTIndexToGeneratorMap,
   fPrimaryTruthMap |-> fPrimaryTruthMap,
   fNotStoredCounterUMap |-> fNotStoredCounterUMap,
   fdroppedTracksMap |-> fdroppedTracksMap, fCurrentTrackID |-> fCurrentTrackID,
   status |-> "run", what |-> "none"]

\* sim::ParticleList::Add: throws if the track ID is already a key
ListHasKey(list, trackID) == trackID \in DOMAIN list

\* the chain of conditionals without its first test
KeepFullTrajectory_NoStoreTest(c, genEntry, isFromMCTProcessPrimary) ==
  IF ~c.fkeepOnlyPrimaryFullTraj THEN TRUE
  ELSE IF isFromMCTProcessPrimary THEN TRUE
  ELSE FALSE

\* lines 423-432: the keepFullTrajectory chain of conditionals
KeepFullTrajectory(c, genEntry, isFromMCTProcessPrimary) ==
  IF ~c.fstoreTrajectories THEN FALSE
  ELSE IF ~genEntry.second THEN FALSE
  ELSE IF ~c.fkeepOnlyPrimaryFullTraj THEN TRUE
  ELSE IF isFromMCTProcessPrimary THEN TRUE
  ELSE FALSE

\* lines 409-447: create the record and file it
CreateParticle(c, m, t, trackID, parentID, process_name, primaryIndex,
               primarymctIndex, isFromMCTProcessPrimary, notstore) ==
  LET particle ==
        [TrackId |-> trackID, PdgCode |-> t.PDGEncoding, Process |-> process_name,
         Mother |-> parentID, NumberTrajectoryPoints |-> 0, Daughters |-> {},
         StatusCode |-> 1]
      genMap == MapTouch(m.fMCTIndexToGeneratorMap, primarymctIndex,
                         [first |-> s_empty, second |-> FALSE])
      m1 == [m EXCEPT
               !.heap = MapPut(@, trackID, particle),
               !.fCurrentParticle =
                  [particle |-> trackID,
                   keepFullTrajectory |->
                     KeepFullTrajectory(c, genMap[primarymctIndex],
                                        isFromMCTProcessPrimary),
                   truthIndex |-> primaryIndex],
               !.fMCTIndexMap = MapPut(@, trackID, primarymctIndex),
               !.fMCTPrimProcessKeepMap = MapPut(@, trackID, isFromMCTProcessPrimary),
               !.fMCTIndexToGeneratorMap = genMap]
  IN IF t.ProperTime # 0 THEN [m1 EXCEPT !.status = "properTime"]
     ELSE IF notstore
     THEN IF c.fStoreDroppedMCParticles
          THEN IF ListHasKey(m1.fdroppedParticleList, trackID)
               THEN [m1 EXCEPT !.status = "throw", !.what = "ParticleList::insert"]
               ELSE [m1 EXCEPT !.fdroppedParticleList = MapPut(@, trackID, trackID),
                               !.status = "notstore"]
          ELSE [m1 EXCEPT !.status = "notstore"]
     ELSE IF ListHasKey(m1.fParticleList, trackID)
          THEN [m1 EXCEPT !.status = "throw", !.what = "ParticleList::insert"]
          ELSE [m1 EXCEPT !.fParticleList = MapPut(@, trackID, trackID),
                          !.status = "stored"]

\* lines 286-303 without the override of the last branch
PrimaryProcessName_NoOverride(mct_primary_process) ==
  IF mct_primary_process = s_primary THEN s_primary
  ELSE mct_primary_process

\* lines 286-303: the process label of a primary and its keep flag
PrimaryProcessName(mct_primary_process) ==
  IF mct_primary_process = s_primary THEN s_primary
  ELSE IF StrFind(mct_primary_process, s_primary) = 1 THEN mct_primary_process
  ELSE s_primary

IsFromMCTProcessPrimary(mct_primary_process) ==
  IF mct_primary_process = s_primary THEN TRUE
  ELSE IF StrFind(mct_primary_process, s_primary) = 1 THEN FALSE
  ELSE TRUE

\* lines 323-334: indices of the excluded-process substrings the name contains
NotStoredMatches(c, process_name) ==
  IF ~c.fKeepEMShowerDaughters
  THEN {i \in 1..Len(c.fNotStoredPhysics) :
          StrContains(process_name, c.fNotStoredPhysics[i])}
  ELSE {}

\* lines 323-334: the counter of the first matching substring is incremented
CountNotStored(c, counters, process_name) ==
  LET hits == NotStoredMatches(c, process_name)
  IN IF hits = {} THEN counters
     ELSE LET p == c.fNotStoredPhysics[CHOOSE i \in hits : \A j \in hits : i <= j]
          IN MapPut(counters, p, MapAt(counters, p, 0) + 1)

\* lines 335-354, recording the track under its direct parent
NotStoreBlock_UnderParent(m, trackID, parentID) ==
  LET m1 == [m EXCEPT !.fParentIDMap = MapPut(@, trackID, parentID)]
      g == GetParentage(m1.fParentIDMap, trackID)
      cur == IF KnownParticle(m1.fParticleList, Negate(g.id))
             THEN Negate(g.id) ELSE NoParticleId
  IN IF g.loops THEN [m1 EXCEPT !.status = "hang"]
     ELSE [m1 EXCEPT !.fCurrentTrackID = cur,
                     !.fTargetIDMap = MapPut(@, trackID, cur),
                     !.fdroppedTracksMap = DroppedInsert(@, parentID, trackID)]

\* lines 335-354: bookkeeping of a track rejected by NotStoredPhysics
NotStoreBlock(m, trackID, parentID) ==
  LET m1 == [m EXCEPT !.fParentIDMap = MapPut(@, trackID, parentID)]
      g == GetParentage(m1.fParentIDMap, trackID)
      cur == IF KnownParticle(m1.fParticleList, Negate(g.id))
             THEN Negate(g.id) ELSE NoParticleId
  IN IF g.loops THEN [m1 EXCEPT !.status = "hang"]
     ELSE [m1 EXCEPT !.fCurrentTrackID = cur,
                     !.fTargetIDMap = MapPut(@, trackID, cur),
                     !.fdroppedTracksMap = DroppedInsert(@, g.id, trackID)]

\* line 360: the condition of the energy cut, with <= for <
EnergyCutApplies_AtThreshold(c, t) ==
  t.KineticEnergy <= c.fenergyCut /\ t.PDGEncoding # 0

\* line 360: the condition of the energy cut
EnergyCutApplies(c, t) == t.KineticEnergy < c.fenergyCut /\ t.PDGEncoding # 0

\* lines 360-369 without the call of fCurrentParticle.clear()
EnergyCutBlock_KeepsActive(m, trackID, parentID) ==
  LET g1 == GetParentage(m.fParentIDMap, trackID)
      m1 == [m EXCEPT !.fdroppedTracksMap = DroppedInsert(@, g1.id, trackID),
                      !.fParentIDMap = MapPut(@, trackID, parentID)]
      g2 == GetParentage(m1.fParentIDMap, trackID)
  IN IF g1.loops THEN [m EXCEPT !.status = "hang"]
     ELSE IF g2.loops THEN [m1 EXCEPT !.status = "hang"]
     ELSE [m1 EXCEPT !.fCurrentTrackID = Negate(g2.id),
                     !.fTargetIDMap = MapPut(@, trackID, Negate(g2.id)),
                     !.status = "energyCut"]

\* lines 360-369: the energy cut has fired
EnergyCutBlock(m, trackID, parentID) ==
  LET g1 == GetParentage(m.fParentIDMap, trackID)
      m1 == [m EXCEPT !.fdroppedTracksMap = DroppedInsert(@, g1.id, trackID),
                      !.fCurrentParticle = ClearedParticle,
                      !.fParentIDMap = MapPut(@, trackID, parentID)]
      g2 == GetParentage(m1.fParentIDMap, trackID)
  IN IF g1.loops THEN [m EXCEPT !.status = "hang"]
     ELSE IF g2.loops THEN [m1 EXCEPT !.status = "hang"]
     ELSE [m1 EXCEPT !.fCurrentTrackID = Negate(g2.id),
                     !.fTargetIDMap = MapPut(@, trackID, Negate(g2.id)),
                     !.status = "energyCut"]

\* line 375/384: the parent is in the particle list or in the dropped list
ParentKnown(c, m, id, parentID) ==
  \/ KnownParticle(m.fParticleList, id)
  \/ c.fStoreDroppedMCParticles /\ KnownParticle(m.fdroppedParticleList, parentID)

\* lines 371-407 with the direct parent as the mother of the record
ResolveAndCreate_DirectMother(c, m, t, trackID, parentID0, process_name, notstore) ==
  LET unknown == ~ParentKnown(c, m, parentID0, parentID0)
      m1 == IF unknown
            THEN [m EXCEPT !.fParentIDMap = MapPut(@, trackID, parentID0)]
            ELSE m
      g == GetParentage(m1.fParentIDMap, parentID0)
      parentID == IF unknown /\ ParentKnown(c, m1, g.id, parentID0)
                  THEN g.id ELSE parentID0
  IN IF unknown /\ g.loops THEN [m1 EXCEPT !.status = "hang"]
     ELSE IF parentID \notin DOMAIN m1.fMCTIndexMap
     THEN [m1 EXCEPT !.status = "throw", !.what = "MCT Index"]
     ELSE CreateParticle(
            c,
            [m1 EXCEPT !.fMCTPrimProcessKeepMap = MapTouch(@, parentID, FALSE)],
            t, trackID, parentID0, process_name, NoGeneratedParticleIndex,
            m1.fMCTIndexMap[parentID],
            MapAt(m1.fMCTPrimProcessKeepMap, parentID, FALSE), notstore)

\* lines 371-407 with index 0 and flag false in place of the parent's
ResolveAndCreate_NoInherit(c, m, t, trackID, parentID0, process_name, notstore) ==
  LET unknown == ~ParentKnown(c, m, parentID0, parentID0)
      m1 == IF unknown
            THEN [m EXCEPT !.fParentIDMap = MapPut(@, trackID, parentID0)]
            ELSE m
      g == GetParentage(m1.fParentIDMap, parentID0)
      parentID == IF unknown /\ ParentKnown(c, m1, g.id, parentID0)
                  THEN g.id ELSE parentID0
  IN IF unknown /\ g.loops THEN [m1 EXCEPT !.status = "hang"]
     ELSE IF parentID \notin DOMAIN m1.fMCTIndexMap
     THEN [m1 EXCEPT !.status = "throw", !.what = "MCT Index"]
     ELSE CreateParticle(
            c,
            [m1 EXCEPT !.fMCTPrimProcessKeepMap = MapTouch(@, parentID, FALSE)],
            t, trackID, parentID, process_name, NoGeneratedParticleIndex,
            0, FALSE, notstore)

\* lines 371-407 and on: parent resolution, truth index, record creation
ResolveAndCreate(c, m, t, trackID, parentID0, process_name, notstore) ==
  LET unknown == ~ParentKnown(c, m, parentID0, parentID0)
      m1 == IF unknown
            THEN [m EXCEPT !.fParentIDMap = MapPut(@, trackID, parentID0)]
            ELSE m
      g == GetParentage(m1.fParentIDMap, parentID0)
      parentID == IF unknown /\ ParentKnown(c, m1, g.id, parentID0)
                  THEN g.id ELSE parentID0
  IN IF unknown /\ g.loops THEN [m1 EXCEPT !.status = "hang"]
     ELSE IF parentID \notin DOMAIN m1.fMCTIndexMap
     THEN [m1 EXCEPT !.status = "throw", !.what = "MCT Index"]
     ELSE CreateParticle(
            c,
            [m1 EXCEPT !.fMCTPrimProcessKeepMap = MapTouch(@, parentID, FALSE)],
            t, trackID, parentID, process_name, NoGeneratedParticleIndex,
            m1.fMCTIndexMap[parentID],
            MapAt(m1.fMCTPrimProcessKeepMap, parentID, FALSE), notstore)

\* lines 314-407: a track without G4PrimaryParticle
SecondaryTrack(c, m, t, trackID, parentID) ==
  LET process_name == t.CreatorProcess
      notstore == NotStoredMatches(c, process_name) # {}
      m1 == [m EXCEPT !.fNotStoredCounterUMap = CountNotStored(c, @, process_name)]
      m2 == IF notstore THEN NotStoreBlock(m1, trackID, parentID) ELSE m1
  IN IF m2.status = "hang" THEN m2
     ELSE IF EnergyCutApplies(c, t)
     THEN EnergyCutBlock(m2, trackID, parentID)
     ELSE ResolveAndCreate(c, m2, t, trackID, parentID, process_name, notstore)

\* the whole handler
PreUserTracking(c, m, offset, t) ==
  LET trackID == t.TrackID + offset
      m1 == [m EXCEPT !.fCurrentTrackID = trackID,
                      !.fTargetIDMap = MapPut(@, trackID, trackID)]
      parentID == t.ParentID + offset
  IN IF t.primaryParticle
     THEN IF t.ppi
          THEN CreateParticle(c, m1, t, trackID, 0, PrimaryProcessName(t.Process),
                              t.MCParticleIndex, t.MCTruthIndex,
                              IsFromMCTProcessPrimary(t.Process), FALSE)
          ELSE CreateParticle(c, m1, t, trackID, parentID, s_unknown,
                              NoGeneratedParticleIndex, 0, FALSE, FALSE)
     ELSE SecondaryTrack(c, m1, t, trackID, parentID)


(***************************************************************************)
(* The tracks Geant4 hands to preUserTrackingAction.  Track IDs of an event *)
(* are 1, 2, ... in the order of the calls.                                *)
(***************************************************************************)
\* number of MCTruth objects in all handles
RECURSIVE NumMCTruths(_)
NumMCTruths(mcl) == IF mcl = <<>> THEN 0 ELSE Head(mcl).size + NumMCTruths(Tail(mcl))

\* tracks with a G4PrimaryParticle; one without PrimaryParticleInformation
\* carries no truth indices
PrimaryTracks(sc, id, mcl) ==
  UNION {
    {[TrackID |-> id, ParentID |-> 0, PDGEncoding |-> 11, primaryParticle |-> TRUE,
      ppi |-> k[1],
      MCParticleIndex |-> IF k[1] THEN id - 1 ELSE NoGeneratedParticleIndex,
      MCTruthIndex |-> ti, Process |-> k[2], CreatorProcess |-> s_empty,
      KineticEnergy |-> k[3], ProperTime |-> k[4]] :
     ti \in IF k[1] THEN 0..(NumMCTruths(mcl) - 1) ELSE {0}} :
    k \in sc.primaries}

SecondaryTracks(sc, id) ==
  {[TrackID |-> id, ParentID |-> par, PDGEncoding |-> k[3], primaryParticle |-> FALSE,
    ppi |-> FALSE, MCParticleIndex |-> NoGeneratedParticleIndex, MCTruthIndex |-> 0,
    Process |-> s_empty, CreatorProcess |-> k[1], KineticEnergy |-> k[2],
    ProperTime |-> k[4]] :
   par \in IF sc.causal THEN 1..(id - 1) ELSE 1..sc.maxTracks,
   k \in sc.secondaries}

TrackInputs(sc, id, mcl) == PrimaryTracks(sc, id, mcl) \cup SecondaryTracks(sc, id)

\* the parent of every secondary of this event was handed over before it
CausalOrder ==
  \A id \in DOMAIN hist :
    hist[id].primaryParticle \/ hist[id].ParentID \in 1..(hist[id].TrackID - 1)

\* copy the members of m into the next state
Store(m) ==
  /\ fCurrentParticle' = m.fCurrentParticle
  /\ heap' = m.heap
  /\ fParticleList' = m.fParticleList
  /\ fdroppedParticleList' = m.fdroppedParticleList
  /\ fParentIDMap' = m.fParentIDMap
  /\ fTargetIDMap' = m.fTargetIDMap
  /\ fMCTIndexMap' = m.fMCTIndexMap
  /\ fMCTPrimProcessKeepMap' = m.fMCTPrimProcessKeepMap
  /\ fMCTIndexToGeneratorMap' = m.fMCTIndexToGeneratorMap
  /\ fPrimaryTruthMap' = m.fPrimaryTruthMap
  /\ fNotStoredCounterUMap' = m.fNotStoredCounterUMap
  /\ fdroppedTracksMap' = m.fdroppedTracksMap
  /\ fCurrentTrackID' = m.fCurrentTrackID

preUserTrackingAction ==
  /\ g4.phase = "event"
  /\ g4.admits < Scope(g4.scope).maxTracks
  /\ \E t \in TrackInputs(Scope(g4.scope), g4.tracks + 1, fMCLists) :
       LET m == PreUserTracking(cfg, Members, fTrackIDOffset, t)
           trackID == t.TrackID + fTrackIDOffset
           created == m.status \in {"stored", "notstore", "properTime"}
       IN /\ Store(m)
          /\ g4' = [g4 EXCEPT
                      !.phase = CASE m.status = "hang" -> "hung"
                                  [] m.status = "throw" -> "aborted"
                                  [] OTHER -> "track",
                      !.tracks = @ + 1, !.admits = @ + 1, !.steps = 0,
                      !.recordable = 0, !.endRecorded = 0, !.pointsAtEnd = 0,
                      !.postStepProcess = s_empty]
          /\ hist' = MapPut(hist, trackID,
                            [TrackID |-> t.TrackID, ParentID |-> t.ParentID,
                             PDGEncoding |-> t.PDGEncoding,
                             primaryParticle |-> t.primaryParticle, ppi |-> t.ppi,
                             MCParticleIndex |-> t.MCParticleIndex,
                             MCTruthIndex |-> t.MCTruthIndex,
                             what |-> m.what,
                             Mother |-> IF created THEN m.heap[trackID].Mother
                                        ELSE NoParticleId,
                             name |-> IF t.primaryParticle THEN t.Process
                                      ELSE t.CreatorProcess,
                             KineticEnergy |-> t.KineticEnergy,
                             ProperTime |-> t.ProperTime,
                             status |-> m.status,
                             keepFullTrajectory |->
                               created /\ m.fCurrentParticle.keepFullTrajectory,
                             ended |-> "no"])
          /\ lastOp' = "preUserTrackingAction"
  /\ offsetAtEntry' = fTrackIDOffset
  /\ UNCHANGED <<cfg, fMCLists, fTrackIDOffset, partCol_, droppedCol_,
                 droppedPartCol_, tpassn_, particleList, droppedParticleList,
                 prevMax>>

(***************************************************************************)
(* userSteppingAction                                                      *)
(***************************************************************************)
\* the points added when the "Start" point is not recorded
StepPoints_NoStart(ci, part, process) ==
  LET ignoreProcess == StrContains(process, s_StepLimiter)
  IN IF ~ignoreProcess /\ ci.keepFullTrajectory THEN 1 ELSE 0

\* lines 548-610: the trajectory points the handler adds to the current particle
StepPoints(ci, part, process) ==
  LET first == IF part.NumberTrajectoryPoints = 0 THEN 1 ELSE 0
      ignoreProcess == StrContains(process, s_StepLimiter)
      more == IF ~ignoreProcess /\ ci.keepFullTrajectory THEN 1 ELSE 0
  IN first + more

UserStepping(m, process) ==
  IF ~hasParticle(m.fCurrentParticle) \/ process = s_empty THEN m
  ELSE LET ptr == m.fCurrentParticle.particle
       IN [m EXCEPT !.heap[ptr].NumberTrajectoryPoints =
                       @ + StepPoints(m.fCurrentParticle, m.heap[ptr], process)]

\* Geant4 takes one step of the current track and calls the handler
userSteppingAction ==
  /\ g4.phase = "track"
  /\ g4.steps < Scope(g4.scope).maxSteps
  \* the empty name stands for a post-step point without a defining process
  /\ \E process \in Scope(g4.scope).stepProcs :
       LET \* the step has a defining process that is not a step limiter
           counts == process # s_empty /\ ~StrContains(process, s_StepLimiter)
           \* the handler records the post-step point of this step
           records == /\ hasParticle(fCurrentParticle) /\ counts
                      /\ fCurrentParticle.keepFullTrajectory
       IN /\ Store(UserStepping(Members, process))
          /\ g4' = [g4 EXCEPT !.steps = @ + 1, !.postStepProcess = process,
                               !.recordable = IF counts THEN @ + 1 ELSE @,
                               !.endRecorded = IF records THEN 1 ELSE 0]
  /\ lastOp' = "userSteppingAction"
  /\ offsetAtEntry' = fTrackIDOffset
  /\ UNCHANGED <<cfg, fMCLists, fTrackIDOffset, partCol_, droppedCol_,
                 droppedPartCol_, tpassn_, particleList, droppedParticleList,
                 hist, prevMax>>


(***************************************************************************)
(* postUserTrackingAction                                                  *)
(***************************************************************************)
\* sim::ParticleList::erase(key): deletes the particle and removes the entry
ListErase(m, key) ==
  IF KnownParticle(m.fParticleList, key)
  THEN [m EXCEPT !.heap = MapErase(@, m.fParticleList[Abs(key)]),
                 !.fParticleList = MapErase(@, Abs(key))]
  ELSE m

\* sim::ParticleList::Archive(key) on the dropped list: operator[] creates a
\* null entry if there is none; a particle found there is deleted and its
\* entry set to null
DroppedArchive(m, key) ==
  LET entry == MapAt(m.fdroppedParticleList, key, NullPtr)
  IN [m EXCEPT !.heap = IF entry = NullPtr THEN @ ELSE MapErase(@, entry),
               !.fdroppedParticleList = MapPut(@, key, NullPtr)]

\* values a read of the track ID of a deleted particle can give
FreedReads == 1..MaxTracks

\* sim::MCTrajectory::Sparsify keeps the end points and any of the others
SparsifyResults(n) == IF n <= 2 THEN {n} ELSE 2..n

\* lines 460-477: the post-step point has no defining process
DegenerateEnd(c, m, freed) ==
  LET ptr == m.fCurrentParticle.particle
      key_to_erase == m.heap[ptr].TrackId
      m1 == ListErase(m, key_to_erase)
      \* Archive(fCurrentParticle.particle) reads the track ID again
      key == IF ptr \in DOMAIN m1.heap THEN m1.heap[ptr].TrackId ELSE freed
      m2 == IF ~m.fCurrentParticle.keepFullTrajectory /\ c.fStoreDroppedMCParticles
            THEN DroppedArchive(m1, key) ELSE m1
  IN [m2 EXCEPT !.fCurrentParticle = ClearedParticle, !.status = "degenerate"]

\* lines 479-517
NormalEnd(c, m, kept) ==
  LET ci == m.fCurrentParticle
      ptr == ci.particle
      n == m.heap[ptr].NumberTrajectoryPoints
      n1 == IF ~ci.keepFullTrajectory THEN n + 1
            ELSE IF c.fSparsifyTrajectories THEN kept ELSE n
  IN [m EXCEPT !.heap[ptr].NumberTrajectoryPoints = n1,
               !.fPrimaryTruthMap =
                  IF isPrimary(ci) THEN MapPut(@, m.heap[ptr].TrackId, ci.truthIndex)
                  ELSE @,
               !.status = "normal"]

PostUserTracking(c, m, process, freed, kept) ==
  IF ~hasParticle(m.fCurrentParticle) THEN [m EXCEPT !.status = "noParticle"]
  ELSE IF process = s_empty THEN DegenerateEnd(c, m, freed)
  ELSE NormalEnd(c, m, kept)

\* the track ends: the handler sees the post-step point of the last step
postUserTrackingAction ==
  /\ g4.phase = "track"
  /\ \E freed \in FreedReads, kept \in 1..(MaxSteps + 1) :
       LET ci == fCurrentParticle
           n == IF hasParticle(ci) THEN heap[ci.particle].NumberTrajectoryPoints ELSE 0
           sparsifies == /\ hasParticle(ci) /\ g4.postStepProcess # s_empty
                         /\ ci.keepFullTrajectory /\ cfg.fSparsifyTrajectories
           reads == /\ hasParticle(ci) /\ g4.postStepProcess = s_empty
                    /\ ~ci.keepFullTrajectory /\ cfg.fStoreDroppedMCParticles
                    /\ KnownParticle(fParticleList, heap[ci.particle].TrackId)
           m == PostUserTracking(cfg, Members, g4.postStepProcess, freed, kept)
           trackID == g4.tracks + fTrackIDOffset
       IN /\ IF sparsifies THEN kept \in SparsifyResults(n) ELSE kept = 1
          /\ IF reads THEN TRUE ELSE freed = 1
          /\ Store(m)
          /\ hist' = [hist EXCEPT ![trackID].ended = m.status]
          /\ g4' = [g4 EXCEPT
                      !.phase = "event",
                      !.pointsAtEnd = n,
                      !.endRecorded =
                         IF m.status = "normal" /\ ~ci.keepFullTrajectory
                         THEN @ + 1 ELSE @]
  /\ lastOp' = "postUserTrackingAction"
  /\ offsetAtEntry' = fTrackIDOffset
  /\ UNCHANGED <<cfg, fMCLists, fTrackIDOffset, partCol_, droppedCol_,
                 droppedPartCol_, tpassn_, particleList, droppedParticleList,
                 prevMax>>


(***************************************************************************)
(* endOfEventAction                                                        *)
(***************************************************************************)
\* the for_each with AddDaughter called on the particle itself
UpdateDaughterInformation_Self(list, hp) ==
  LET MotherOf(particleID) == hp[list[particleID]].Mother
      daughtersOf(a) ==
        {particleID \in DOMAIN list :
           /\ MotherOf(particleID) > 0
           /\ KnownParticle(list, MotherOf(particleID))
           /\ list[particleID] = a}
  IN [a \in DOMAIN hp |-> [hp[a] EXCEPT !.Daughters = @ \cup daughtersOf(a)]]

\* UpdateDaughterInformation applied to every entry of the list: the heap
\* after the for_each (MCParticle::AddDaughter inserts into a std::set)
UpdateDaughterInformation(list, hp) ==
  LET MotherOf(particleID) == hp[list[particleID]].Mother
      daughtersOf(a) ==
        {particleID \in DOMAIN list :
           /\ MotherOf(particleID) > 0
           /\ KnownParticle(list, MotherOf(particleID))
           /\ list[Abs(MotherOf(particleID))] # NullPtr
           /\ list[Abs(MotherOf(particleID))] = a}
  IN [a \in DOMAIN hp |-> [hp[a] EXCEPT !.Daughters = @ \cup daughtersOf(a)]]

\* the scan for the highest track ID in YieldList and YieldDroppedList
HighestID(c, list, dlist) ==
  LET keys == (DOMAIN list) \cup
              (IF c.fStoreDroppedMCParticles THEN DOMAIN dlist ELSE {})
      above == {k \in keys : k > 0}
  IN IF above = {} THEN 0 ELSE SetMax(above)

\* fTrackIDOffset after YieldList / YieldDroppedList
YieldOffset(c, offset, list, dlist) ==
  IF Cardinality(DOMAIN list) # 0 THEN HighestID(c, list, dlist) + 1 ELSE offset

\* the MCTruth objects in the order of the two nested loops
RECURSIVE TruthSlots(_, _)
TruthSlots(mcl, i) ==
  IF i > Len(mcl) THEN <<>>
  ELSE [j \in 1..mcl[i].size |-> [mcl |-> i - 1, m |-> j - 1]] \o TruthSlots(mcl, i + 1)

\* sim::GeneratedParticleInfo of a track: GetPrimaryTruthIndex
GetPrimaryTruthIndex(truthMap, trackId) ==
  MapAt(truthMap, trackId, NoGeneratedParticleIndex)

\* isDropped(p)
isDropped(hp, p) == p = NullPtr \/ hp[p].NumberTrajectoryPoints = 0

\* the loop over particleList without the test of gen_index against nMCTruths
RECURSIVE AddParticles_NoFilter(_, _, _, _, _, _, _, _)
AddParticles_NoFilter(acc, plist, hp, truthMap, items, i, nMCTruths, ndebug) ==
  IF acc.status # "run" \/ i > Len(items) THEN acc
  ELSE LET p == hp[plist[items[i]]]
           acc1 == [acc EXCEPT !.fMCTIndexMap = MapTouch(@, p.TrackId, 0)]
           truthInfo == GetPrimaryTruthIndex(truthMap, p.TrackId)
       IN IF truthInfo = NoGeneratedParticleIndex /\ p.Mother = 0
          THEN [acc1 EXCEPT !.status = "throw"]
          ELSE AddParticles_NoFilter(
                 [acc1 EXCEPT
                    !.partCol_ = Append(@, p),
                    !.tpassn_ = Append(@, [mct |-> acc.mct, mcp |-> Len(acc.partCol_),
                                           truthInfo |-> truthInfo]),
                    !.moved = @ \cup {plist[items[i]]}],
                 plist, hp, truthMap, items, i + 1, nMCTruths, ndebug)

\* lines 778-800: the loop over particleList for one MCTruth, from the i-th key
RECURSIVE AddParticles(_, _, _, _, _, _, _, _)
AddParticles(acc, plist, hp, truthMap, items, i, nMCTruths, ndebug) ==
  IF acc.status # "run" \/ i > Len(items) THEN acc
  ELSE LET p == hp[plist[items[i]]]
           acc1 == [acc EXCEPT !.fMCTIndexMap = MapTouch(@, p.TrackId, 0)]
           gen_index == acc1.fMCTIndexMap[p.TrackId]
           truthInfo == GetPrimaryTruthIndex(truthMap, p.TrackId)
           moved == plist[items[i]] \in acc.moved
       IN IF gen_index # nMCTruths
          THEN AddParticles(acc1, plist, hp, truthMap, items, i + 1, nMCTruths, ndebug)
          ELSE IF (moved \/ p.NumberTrajectoryPoints = 0) /\ ~ndebug
          THEN [acc1 EXCEPT !.status = "assert"]
          ELSE IF truthInfo = NoGeneratedParticleIndex /\ p.Mother = 0
          THEN [acc1 EXCEPT !.status = "throw"]
          ELSE AddParticles(
                 [acc1 EXCEPT
                    !.partCol_ = Append(@, p),
                    !.tpassn_ = Append(@, [mct |-> acc.mct, mcp |-> Len(acc.partCol_),
                                           truthInfo |-> truthInfo]),
                    !.moved = @ \cup {plist[items[i]]}],
                 plist, hp, truthMap, items, i + 1, nMCTruths, ndebug)

\* lines 801-811: the reduced copies of the dropped particles for one MCTruth
DroppedMinis(c, dlist, hp, mct) ==
  IF c.fStoreDroppedMCParticles
  THEN LET keep == {k \in DOMAIN dlist :
                      ~isDropped(hp, dlist[k]) /\ hp[dlist[k]].StatusCode = 1}
           ks == SortedSeq(keep)
       IN [i \in 1..Len(ks) |-> [TrackId |-> hp[dlist[ks[i]]].TrackId, Origin |-> mct]]
  ELSE <<>>

\* lines 772-816: the loops over the handles and their MCTruth objects
RECURSIVE TruthLoop(_, _, _, _, _, _, _, _, _)
TruthLoop(c, acc, plist, dlist, hp, truthMap, slots, n, ndebug) ==
  IF acc.status # "run" \/ n > Len(slots) THEN acc
  ELSE LET acc1 == AddParticles([acc EXCEPT !.mct = slots[n]], plist, hp, truthMap,
                                SortedSeq(DOMAIN plist), 1, n - 1, ndebug)
       IN IF acc1.status # "run" THEN acc1
          ELSE TruthLoop(
                 c,
                 [acc1 EXCEPT
                    !.droppedPartCol_ = @ \o DroppedMinis(c, dlist, hp, slots[n]),
                    !.droppedCol_ = acc.fdroppedTracksMap],
                 plist, dlist, hp, truthMap, slots, n + 1, ndebug)

endOfEventAction ==
  /\ g4.phase = "event"
  /\ \E ndebug \in BOOLEAN :
       LET hp == UpdateDaughterInformation(fParticleList, heap)
           offset == YieldOffset(cfg, fTrackIDOffset, fParticleList,
                                 fdroppedParticleList)
           \* YieldDroppedList runs on the moved-from, empty fParticleList
           offset2 == IF cfg.fStoreDroppedMCParticles
                      THEN YieldOffset(cfg, offset, EmptyMap, fdroppedParticleList)
                      ELSE offset
           acc0 == [partCol_ |-> <<>>, tpassn_ |-> <<>>, droppedPartCol_ |-> <<>>,
                    droppedCol_ |-> EmptyMap, fMCTIndexMap |-> fMCTIndexMap,
                    fdroppedTracksMap |-> fdroppedTracksMap, moved |-> {},
                    mct |-> [mcl |-> 0, m |-> 0], status |-> "run"]
           acc == TruthLoop(cfg, acc0, fParticleList, fdroppedParticleList, hp,
                            fPrimaryTruthMap, TruthSlots(fMCLists, 1), 1, ndebug)
           owned == {fParticleList[k] : k \in DOMAIN fParticleList} \cup
                    {fdroppedParticleList[k] : k \in DOMAIN fdroppedParticleList}
           asserts == \E k \in DOMAIN fParticleList :
                        hp[fParticleList[k]].NumberTrajectoryPoints = 0
       IN /\ IF asserts THEN TRUE ELSE ndebug
          /\ partCol_' = acc.partCol_
          /\ tpassn_' = acc.tpassn_
          /\ droppedPartCol_' = acc.droppedPartCol_
          /\ droppedCol_' = acc.droppedCol_
          /\ fMCTIndexMap' = acc.fMCTIndexMap
          /\ particleList' = [k \in DOMAIN fParticleList |-> hp[fParticleList[k]]]
          \* each entry as the particle it points to, empty for a null entry
          /\ droppedParticleList' =
               IF cfg.fStoreDroppedMCParticles
               THEN [k \in DOMAIN fdroppedParticleList |->
                       IF fdroppedParticleList[k] = NullPtr THEN <<>>
                       ELSE <<hp[fdroppedParticleList[k]]>>]
               ELSE EmptyMap
          \* the local lists delete their particles when they go out of scope
          /\ heap' = [a \in (DOMAIN hp) \ owned |-> hp[a]]
          /\ fParticleList' = EmptyMap
          /\ fdroppedParticleList' = EmptyMap
          /\ fTrackIDOffset' = IF acc.status = "run" THEN 0 ELSE offset2
          /\ g4' = [g4 EXCEPT !.phase = IF acc.status = "run" THEN "finalized"
                                        ELSE "aborted"]
          /\ lastOp' = IF acc.status = "run" THEN "endOfEventAction"
                       ELSE "endOfEventAction throws"
  /\ prevMax' = IF DOMAIN fParticleList = {} THEN 0 ELSE SetMax(DOMAIN fParticleList)
  /\ offsetAtEntry' = fTrackIDOffset
  /\ UNCHANGED <<cfg, fMCLists, fCurrentParticle, fParentIDMap, fTargetIDMap,
                 fMCTPrimProcessKeepMap, fPrimaryTruthMap, fMCTIndexToGeneratorMap,
                 fNotStoredCounterUMap, fdroppedTracksMap, fCurrentTrackID, hist>>

(***************************************************************************)
(* Specification                                                           *)
(***************************************************************************)
Next ==
  \/ beginOfEventAction
  \/ preUserTrackingAction
  \/ userSteppingAction
  \/ postUserTrackingAction
  \/ endOfEventAction

Spec == Init /\ [][Next]_vars


(***************************************************************************)
(* Vocabulary of the properties                                            *)
(***************************************************************************)
\* an event is being processed and has not reached endOfEventAction
InEvent == g4.phase \in {"event", "track"}

\* no track is in flight: every track handed over has ended
BetweenTracks == g4.phase = "event"

\* endOfEventAction has run for the event hist describes
EventEnded == lastOp \in {"endOfEventAction", "endOfEventAction throws"}

\* track IDs of the retained output of the event hist describes
OutputIDs ==
  IF EventEnded THEN {partCol_[i].TrackId : i \in 1..Len(partCol_)} ELSE {}

\* the call of preUserTrackingAction for track id has just returned
JustAdmitted(id) ==
  /\ lastOp = "preUserTrackingAction"
  /\ id = g4.tracks + fTrackIDOffset
  /\ id \in DOMAIN hist

\* the track has no G4PrimaryParticle and its creator process is excluded
Excluded(h) ==
  ~h.primaryParticle /\ NotStoredMatches(cfg, h.name) # {}

\* the track meets the condition of the energy cut
BelowCut(h) == h.KineticEnergy < cfg.fenergyCut /\ h.PDGEncoding # 0

\* the end of the walk over fParentIDMap that starts at parentID
Ancestor(parentID) ==
  IF parentID \in DOMAIN fParentIDMap
  THEN GetParentage(fParentIDMap, parentID).id
  ELSE parentID

(***************************************************************************)
(* C1.  Offset carry-over: when the event finalized before this one        *)
(* retained a particle and M is the highest track ID it retained, every    *)
(* track ID assigned in this event is at least M + 1.  The code resets     *)
(* fTrackIDOffset to 0 at the end of endOfEventAction and again in         *)
(* beginOfEventAction, so the IDs of the second event start at 1 again.    *)
(***************************************************************************)
C1_OffsetCarryOver ==
  (InEvent /\ prevMax > 0) => \A id \in DOMAIN hist : id >= prevMax + 1

(***************************************************************************)
(* C2.  Energy cut, as claimed: no track, primary or not, with kinetic     *)
(* energy below the cut and a nonzero PDG code is in the particle list or  *)
(* the retained output.  A primary is never tested against the cut.        *)
(***************************************************************************)
C2_EnergyCutAllTracks ==
  \A id \in DOMAIN hist :
    BelowCut(hist[id]) => id \notin DOMAIN fParticleList /\ id \notin OutputIDs

(***************************************************************************)
(* C2, amended.  A track without G4PrimaryParticle whose kinetic energy is *)
(* below the cut and whose PDG code is nonzero is never in the particle    *)
(* list or the retained output; a track at or above the cut, or with PDG   *)
(* code 0, or with a G4PrimaryParticle, never leaves preUserTrackingAction *)
(* by the energy cut.                                                      *)
(***************************************************************************)
C2_EnergyCut ==
  \A id \in DOMAIN hist :
    LET h == hist[id]
    IN /\ (~h.primaryParticle /\ BelowCut(h)) =>
            id \notin DOMAIN fParticleList /\ id \notin OutputIDs
       /\ (h.primaryParticle \/ ~BelowCut(h)) => h.status # "energyCut"

\* an event has been finalized in which one secondary was cut and another,
\* at the threshold, is in the retained output
C2_Witness ==
  /\ lastOp = "endOfEventAction"
  /\ \E a, b \in DOMAIN hist :
       /\ ~hist[a].primaryParticle /\ BelowCut(hist[a]) /\ hist[a].status = "energyCut"
       /\ ~hist[b].primaryParticle /\ hist[b].KineticEnergy = cfg.fenergyCut
       /\ hist[b].status = "stored" /\ b \in OutputIDs

(***************************************************************************)
(* C3.  Process exclusion: a track without G4PrimaryParticle whose creator *)
(* process contains an excluded substring (suppression enabled) is never   *)
(* in the particle list or the retained output; when its call returns, and *)
(* from then on in an event whose parents precede their children, its ID   *)
(* is in the ancestry map under the end of the walk over fParentIDMap from *)
(* its parent.  Primary 1 followed by secondary 2 (parent 1, "phot") gives *)
(* the retained output {1} and the ancestry map {1: {2}} without fatal     *)
(* error.                                                                  *)
(***************************************************************************)
C3_Scenario ==
  /\ DOMAIN hist = {1, 2}
  /\ hist[1].ppi /\ hist[1].status = "stored" /\ hist[1].ended = "normal"
  /\ hist[2].name = s_phot /\ hist[2].ParentID = 1 /\ Excluded(hist[2])
  /\ ~BelowCut(hist[2])
  /\ EventEnded

C3_ProcessExclusion ==
  /\ \A id \in DOMAIN hist :
       Excluded(hist[id]) =>
         /\ id \notin DOMAIN fParticleList
         /\ id \notin OutputIDs
         /\ (hist[id].status # "hang" /\ (JustAdmitted(id) \/ CausalOrder)) =>
              id \in MapAt(fdroppedTracksMap, Ancestor(hist[id].ParentID), {})
  /\ C3_Scenario =>
       /\ lastOp = "endOfEventAction"
       /\ OutputIDs = {1}
       /\ droppedCol_ = [k \in {1} |-> {2}]

\* the scenario has run; and an excluded track whose parent had been
\* excluded too is recorded under its grandparent
C3_Witness ==
  \/ C3_Scenario /\ OutputIDs = {1}
  \/ /\ DOMAIN hist = {1, 2, 3}
     /\ Excluded(hist[2]) /\ Excluded(hist[3]) /\ hist[3].ParentID = 2
     /\ hist[2].ParentID = 1
     /\ 3 \in MapAt(fdroppedTracksMap, 1, {})

(***************************************************************************)
(* C4.  Daughter backfill: in the list endOfEventAction works on, a        *)
(* particle p whose mother q > 0 is in the list is a daughter of q; every  *)
(* daughter recorded for q is a particle of the list whose mother is q (so *)
(* primaries and orphans add nothing); and the retained output carries     *)
(* these daughter lists.  Daughters() is a std::set, an ID is in it once.  *)
(***************************************************************************)
C4_DaughterBackfill ==
  /\ \A p \in DOMAIN particleList :
       LET q == particleList[p].Mother
       IN /\ (q > 0 /\ q \in DOMAIN particleList) => p \in particleList[q].Daughters
          /\ \A d \in particleList[p].Daughters :
               d \in DOMAIN particleList /\ particleList[d].Mother = p
  /\ EventEnded =>
       \A i \in 1..Len(partCol_) :
         /\ partCol_[i].TrackId \in DOMAIN particleList
         /\ partCol_[i] = particleList[partCol_[i].TrackId]

\* suppression is off; primary 1, its secondary 2 and 2's secondary 3 are in
\* the output, 2 is the daughter of 1 and 3 the daughter of 2
C4_Witness ==
  /\ lastOp = "endOfEventAction"
  /\ cfg.fKeepEMShowerDaughters
  /\ \E i, j, k \in 1..Len(partCol_) :
       /\ partCol_[i].TrackId = 1 /\ partCol_[i].Daughters = {2}
       /\ partCol_[j].TrackId = 2 /\ partCol_[j].Mother = 1
       /\ partCol_[j].Daughters = {3}
       /\ partCol_[k].TrackId = 3 /\ partCol_[k].Mother = 2

(***************************************************************************)
(* C5.  Trajectory count: when no track is in flight, every particle of    *)
(* the particle list has at least one trajectory point, and one whose      *)
(* keepFullTrajectory flag is false has exactly two.                       *)
(***************************************************************************)
C5_TrajectoryCount ==
  BetweenTracks =>
    \A k \in DOMAIN fParticleList :
      LET n == heap[fParticleList[k]].NumberTrajectoryPoints
      IN /\ n >= 1
         /\ ~hist[k].keepFullTrajectory => n = 2

\* two retained particles, one with two points and the flag false, one with
\* three points and the flag true
C5_Witness ==
  /\ BetweenTracks
  /\ \E a, b \in DOMAIN fParticleList :
       /\ ~hist[a].keepFullTrajectory
       /\ heap[fParticleList[a]].NumberTrajectoryPoints = 2
       /\ hist[b].keepFullTrajectory
       /\ heap[fParticleList[b]].NumberTrajectoryPoints = 3

(***************************************************************************)
(* C6.  With storeTrajectories = false every particle of the particle list *)
(* has exactly two trajectory points once its track has ended, and so has  *)
(* every particle of the retained output.                                  *)
(***************************************************************************)
C6_NoStoredTrajectories ==
  ~cfg.fstoreTrajectories =>
    /\ BetweenTracks =>
         \A k \in DOMAIN fParticleList :
           heap[fParticleList[k]].NumberTrajectoryPoints = 2
    /\ \A i \in 1..Len(partCol_) : partCol_[i].NumberTrajectoryPoints = 2

\* storeTrajectories = false, only-primary policy off, an empty allow-list:
\* a primary of a generator and its secondary are in the output
C6_Witness ==
  /\ ~cfg.fstoreTrajectories
  /\ ~cfg.fkeepOnlyPrimaryFullTraj
  /\ cfg.fkeepGenTrajectories = <<>>
  /\ lastOp = "endOfEventAction"
  /\ \E i, j \in 1..Len(partCol_) :
       partCol_[i].Mother = 0 /\ partCol_[j].Mother = partCol_[i].TrackId

(***************************************************************************)
(* C7.  Result of ancestor resolution: when preUserTrackingAction has      *)
(* dropped a track (of an event whose parents precede their children),     *)
(* the key it is filed under in the ancestry map and the                   *)
(* ID its negative entry in fTargetIDMap names are IDs of the particle     *)
(* list or sim::NoParticleId.  The energy cut stores -GetParentage without *)
(* looking the ID up, and both drops use GetParentage as the key.          *)
(***************************************************************************)
C7_AncestorKnown ==
  \A id \in DOMAIN hist :
    (/\ CausalOrder
     /\ JustAdmitted(id)
     /\ hist[id].status \in {"energyCut", "notstore", "properTime"}
     /\ Excluded(hist[id]) \/ hist[id].status = "energyCut") =>
      /\ \A key \in DOMAIN fdroppedTracksMap :
           id \in fdroppedTracksMap[key] =>
             key = NoParticleId \/ key \in DOMAIN fParticleList
      /\ fTargetIDMap[id] = NoParticleId
           \/ Negate(fTargetIDMap[id]) \in DOMAIN fParticleList

(***************************************************************************)
(* C8.  Termination of ancestor resolution: no call of GetParentage fails  *)
(* to return.  The loop has no bound and no visited set; a track whose     *)
(* parent ID is its own ID puts a cycle into fParentIDMap.                 *)
(***************************************************************************)
C8_WalkTerminates == g4.phase # "hung"

(***************************************************************************)
(* C9.  No dangling or duplicate records: the particle list, the dropped   *)
(* list and fCurrentParticle point at live particles only, and no particle *)
(* is owned twice.  endOfEventAction deletes the particles of the lists    *)
(* and leaves fCurrentParticle.particle pointing at the last one.          *)
(***************************************************************************)
C9_NoDangling ==
  /\ hasParticle(fCurrentParticle) => fCurrentParticle.particle \in DOMAIN heap
  /\ \A k \in DOMAIN fParticleList : fParticleList[k] \in DOMAIN heap
  /\ \A k \in DOMAIN fdroppedParticleList :
       fdroppedParticleList[k] # NullPtr =>
         /\ fdroppedParticleList[k] \in DOMAIN heap
         /\ \A j \in DOMAIN fParticleList :
              fParticleList[j] # fdroppedParticleList[k]
  /\ \A j, k \in DOMAIN fParticleList : fParticleList[j] = fParticleList[k] => j = k

(***************************************************************************)
(* C10.  beginOfEventAction leaves the particle list, fParentIDMap,        *)
(* fdroppedTracksMap, fMCTIndexMap, fMCTPrimProcessKeepMap,                *)
(* fPrimaryTruthMap, fTargetIDMap and the dropped list empty and           *)
(* fCurrentParticle without a particle, in whatever state it is called.    *)
(***************************************************************************)
C10_BeginClears ==
  lastOp = "beginOfEventAction" =>
    /\ fParticleList = EmptyMap
    /\ fParentIDMap = EmptyMap
    /\ fdroppedTracksMap = EmptyMap
    /\ fMCTIndexMap = EmptyMap
    /\ fMCTPrimProcessKeepMap = EmptyMap
    /\ fPrimaryTruthMap = EmptyMap
    /\ fTargetIDMap = EmptyMap
    /\ fdroppedParticleList = EmptyMap
    /\ ~hasParticle(fCurrentParticle)

\* a second event begins after one that retained particles and was finalized
C10_Witness ==
  /\ lastOp = "beginOfEventAction"
  /\ g4.events = 2
  /\ prevMax > 0
  /\ partCol_ # <<>>

(***************************************************************************)
(* C11.  beginOfEventAction leaves fTrackIDOffset as the preceding         *)
(* endOfEventAction set it, and no handler other than endOfEventAction     *)
(* changes fTrackIDOffset.  beginOfEventAction assigns 0 (line 145): after *)
(* an endOfEventAction that threw behind YieldList the offset is           *)
(* highestID + 1, and the next beginOfEventAction overwrites it.           *)
(***************************************************************************)
C11_BeginKeepsOffset ==
  ~EventEnded => fTrackIDOffset = offsetAtEntry

(***************************************************************************)
(* C12.  Offset computation: after an endOfEventAction that completed, the *)
(* offset is 1 + the highest track ID of the yielded particle list and     *)
(* (when it is kept) the dropped list if the particle list was not empty,  *)
(* and its value at entry otherwise; and no handler lowers the offset.     *)
(* The last statement of endOfEventAction (line 817) sets the offset to 0. *)
(***************************************************************************)
C12_OffsetAtFinalization ==
  /\ lastOp = "endOfEventAction" =>
       IF DOMAIN particleList # {}
       THEN fTrackIDOffset =
              1 + SetMax((DOMAIN particleList) \cup (DOMAIN droppedParticleList))
       ELSE fTrackIDOffset = offsetAtEntry
  /\ fTrackIDOffset >= offsetAtEntry

\* preUserTrackingAction created a record for the track
Created(h) == h.status \in {"stored", "notstore", "properTime"}

\* the label of the handle that holds MCTruth number truthIndex, the MCTruth
\* objects being numbered as the loops of endOfEventAction number them
TruthGenerator(mcl, truthIndex) ==
  mcl[TruthSlots(mcl, 1)[truthIndex + 1].mcl + 1].label

\* the generator is storable: the allow-list is empty or holds its label
GeneratorStorable(c, label) ==
  \/ c.fkeepGenTrajectories = <<>>
  \/ \E i \in 1..Len(c.fkeepGenTrajectories) : c.fkeepGenTrajectories[i] = label

(***************************************************************************)
(* C13.  keepFullTrajectory decision: for every record created for a track *)
(* whose (own or inherited) MCTruth index names an MCTruth of the event,   *)
(* keepFullTrajectory is true exactly when storeTrajectories is set, the   *)
(* generator of that MCTruth is storable, and the only-primary policy is   *)
(* off or the track's from-primary-process flag is true.                   *)
(* fMCTIndexToGeneratorMap is keyed by the number of the handle but read   *)
(* with the number of the MCTruth: the two differ as soon as a handle      *)
(* holds more or fewer than one MCTruth.                                   *)
(***************************************************************************)
C13_KeepFullTrajectory ==
  \A id \in DOMAIN hist :
    (Created(hist[id]) /\ fMCTIndexMap[id] < NumMCTruths(fMCLists)) =>
      hist[id].keepFullTrajectory =
        (/\ cfg.fstoreTrajectories
         /\ GeneratorStorable(cfg, TruthGenerator(fMCLists, fMCTIndexMap[id]))
         /\ cfg.fkeepOnlyPrimaryFullTraj => fMCTPrimProcessKeepMap[id])

\* the track has a G4PrimaryParticle with PrimaryParticleInformation
HasProvenance(h) == h.primaryParticle /\ h.ppi

\* the MCTruth process label starts with "primary"
StartsWithPrimary(name) ==
  Len(name) >= Len(s_primary) /\ SubSeq(name, 1, Len(s_primary)) = s_primary

(***************************************************************************)
(* C14.  Primary path: a track with PrimaryParticleInformation gets a      *)
(* record with mother 0 and is never tested against NotStoredPhysics, the  *)
(* energy cut or the parent resolution; the process of the record and the  *)
(* from-primary-process flag are ("primary", true) for the label           *)
(* "primary", (the label, false) for a longer label that starts with       *)
(* "primary", ("primary", true) for any other label; its MCTruth index and *)
(* its generated-particle index are those of the                           *)
(* PrimaryParticleInformation.                                             *)
(***************************************************************************)
C14_PrimaryPath ==
  \A id \in DOMAIN hist :
    HasProvenance(hist[id]) =>
      LET h == hist[id]
          label == IF StartsWithPrimary(h.name) THEN h.name ELSE s_primary
          flag == h.name = s_primary \/ ~StartsWithPrimary(h.name)
      IN /\ h.status \in {"stored", "properTime"}
         /\ id \notin DOMAIN fParentIDMap
         /\ \A key \in DOMAIN fdroppedTracksMap : id \notin fdroppedTracksMap[key]
         /\ fMCTIndexMap[id] = h.MCTruthIndex
         /\ fMCTPrimProcessKeepMap[id] = flag
         /\ JustAdmitted(id) =>
              /\ fCurrentParticle.particle = id
              /\ heap[id].Mother = 0
              /\ heap[id].Process = label
              /\ fCurrentParticle.truthIndex = h.MCParticleIndex
              /\ fTargetIDMap[id] = id

\* a primary labelled "primaryBackground" has been admitted and one with a
\* label that does not start with "primary" has just been admitted
C14_Witness ==
  \E a, b \in DOMAIN hist :
    /\ HasProvenance(hist[a]) /\ hist[a].name = s_primaryBackground
    /\ ~fMCTPrimProcessKeepMap[a]
    /\ HasProvenance(hist[b]) /\ ~StartsWithPrimary(hist[b].name)
    /\ JustAdmitted(b) /\ heap[b].Process = s_primary

\* the track went through the parent resolution of lines 375-393 and came
\* out an orphan: its parent is in neither list and the walk over
\* fParentIDMap from the parent does not end at a particle of the list
Orphan(id) ==
  LET h == hist[id]
      parentID == h.ParentID + fTrackIDOffset
  IN /\ ~h.primaryParticle
     /\ ~BelowCut(h)
     /\ h.status # "hang"
     /\ parentID \notin DOMAIN fParticleList
     /\ cfg.fStoreDroppedMCParticles => parentID \notin DOMAIN fdroppedParticleList
     /\ Ancestor(parentID) \notin DOMAIN fParticleList

(***************************************************************************)
(* C15.  An orphaned parent is recoverable: when a track without           *)
(* G4PrimaryParticle that passes the energy cut comes out of the parent    *)
(* resolution an orphan (in an event whose parents precede their           *)
(* children), preUserTrackingAction does not throw and creates the record  *)
(* with the unresolved parent ID as mother.  The code logs the warning and *)
(* then throws if the unresolved parent has no entry in fMCTIndexMap,      *)
(* which a parent dropped by the energy cut never has.                     *)
(***************************************************************************)
C15_OrphanRecoverable ==
  \A id \in DOMAIN hist :
    (CausalOrder /\ JustAdmitted(id) /\ Orphan(id)) =>
      /\ Created(hist[id])
      /\ heap[id].Mother = hist[id].ParentID + fTrackIDOffset

(***************************************************************************)
(* C16.  The LogicError "Could not locate MCT Index" is thrown only on a   *)
(* violation of the causal order: in an event whose parents were handed to *)
(* preUserTrackingAction before their children, it is never thrown.        *)
(***************************************************************************)
C16_NoMissingTruthIndex ==
  CausalOrder =>
    \A id \in DOMAIN hist :
      ~(hist[id].status = "throw" /\ hist[id].what = "MCT Index")

(***************************************************************************)
(* C17.  No primary is silently missing: after an endOfEventAction that    *)
(* completed, every track admitted with PrimaryParticleInformation is in   *)
(* the retained output with at least one trajectory point.  A primary      *)
(* whose last post-step point has no defining process is erased by         *)
(* postUserTrackingAction, one with nonzero proper time is never stored,   *)
(* and endOfEventAction looks only at the particles that are in the list.  *)
(***************************************************************************)
C17_PrimaryInOutput ==
  lastOp = "endOfEventAction" =>
    \A id \in DOMAIN hist :
      HasProvenance(hist[id]) =>
        \E i \in 1..Len(partCol_) :
          partCol_[i].TrackId = id /\ partCol_[i].NumberTrajectoryPoints >= 1

\* the MCTruth index a retained track has of its own or inherits from its
\* mother; a mother that is not retained is looked up in fMCTIndexMap
RECURSIVE TruthIndexOf(_)
TruthIndexOf(id) ==
  IF hist[id].primaryParticle
  THEN IF hist[id].ppi THEN hist[id].MCTruthIndex ELSE 0
  ELSE LET mother == particleList[id].Mother
       IN IF mother \in DOMAIN particleList /\ mother < id
          THEN TruthIndexOf(mother)
          ELSE MapAt(fMCTIndexMap, mother, NoGeneratedParticleIndex)

(***************************************************************************)
(* C18.  Truth association: after an endOfEventAction that completed,      *)
(* every particle of the yielded particle list is in the retained output   *)
(* exactly once and has exactly one association, which names the MCTruth   *)
(* of its own or inherited MCTruth index and carries the generated-        *)
(* particle index of its PrimaryParticleInformation (none for the others). *)
(* A particle whose MCTruth index names no MCTruth of the event is passed  *)
(* over by every turn of the loop and is in no output.                     *)
(***************************************************************************)
C18_TruthAssociation ==
  lastOp = "endOfEventAction" =>
    \A id \in DOMAIN particleList :
      /\ Cardinality({i \in 1..Len(partCol_) : partCol_[i].TrackId = id}) = 1
      /\ LET i == CHOOSE i \in 1..Len(partCol_) : partCol_[i].TrackId = id
             assns == {j \in 1..Len(tpassn_) : tpassn_[j].mcp = i - 1}
         IN /\ Cardinality(assns) = 1
            /\ \A j \in assns :
                 /\ TruthIndexOf(id) < NumMCTruths(fMCLists)
                 /\ tpassn_[j].mct = TruthSlots(fMCLists, 1)[TruthIndexOf(id) + 1]
                 /\ tpassn_[j].truthInfo =
                      IF HasProvenance(hist[id]) THEN hist[id].MCParticleIndex
                      ELSE NoGeneratedParticleIndex

(***************************************************************************)
(* C18, amended.  After an endOfEventAction that completed, every particle *)
(* of the yielded particle list whose own or inherited MCTruth index names *)
(* an MCTruth of the event is in the retained output exactly once and has  *)
(* exactly one association, which names that MCTruth and carries the       *)
(* generated-particle index of its PrimaryParticleInformation (none for    *)
(* the others); a particle whose index names no MCTruth is not in the      *)
(* output.                                                                 *)
(***************************************************************************)
C18_TruthAssociationWithTruth ==
  lastOp = "endOfEventAction" =>
    \A id \in DOMAIN particleList :
      LET places == {i \in 1..Len(partCol_) : partCol_[i].TrackId = id}
          assns == {j \in 1..Len(tpassn_) : tpassn_[j].mcp + 1 \in places}
      IN IF TruthIndexOf(id) < NumMCTruths(fMCLists)
         THEN /\ Cardinality(places) = 1
              /\ Cardinality(assns) = 1
              /\ \A j \in assns :
                   /\ tpassn_[j].mct = TruthSlots(fMCLists, 1)[TruthIndexOf(id) + 1]
                   /\ tpassn_[j].truthInfo =
                        IF HasProvenance(hist[id]) THEN hist[id].MCParticleIndex
                        ELSE NoGeneratedParticleIndex
         ELSE places = {} /\ assns = {}

\* two handles: a primary of the second MCTruth and its secondary are in the
\* output, each with its association to the second MCTruth
C18_Witness ==
  /\ lastOp = "endOfEventAction"
  /\ Len(fMCLists) = 2
  /\ Len(partCol_) = 2 /\ Len(tpassn_) = 2
  /\ partCol_[1].Mother = 0 /\ partCol_[2].Mother = partCol_[1].TrackId
  /\ tpassn_[1].mct = [mcl |-> 1, m |-> 0] /\ tpassn_[2].mct = [mcl |-> 1, m |-> 0]
  /\ tpassn_[1].truthInfo # NoGeneratedParticleIndex
  /\ tpassn_[2].truthInfo = NoGeneratedParticleIndex

(***************************************************************************)
(* C19.  Ancestry map output: after an endOfEventAction that completed,    *)
(* the output ancestry map equals fdroppedTracksMap, also in an event      *)
(* without MCTruth.  SetMap is called in the body of the loop over the     *)
(* MCTruth objects (line 813), so without MCTruth the output map is empty. *)
(***************************************************************************)
C19_AncestryMapOutput ==
  lastOp = "endOfEventAction" => droppedCol_ = fdroppedTracksMap

(***************************************************************************)
(* C20.  After an endOfEventAction that completed, fCurrentParticle has no *)
(* particle.  endOfEventAction does not touch fCurrentParticle: it still   *)
(* holds the pointer postUserTrackingAction left in it.                    *)
(***************************************************************************)
C20_SlotEmptyAfterEnd ==
  lastOp = "endOfEventAction" => ~hasParticle(fCurrentParticle)

\* the track the engine is tracking or has tracked last
CurrentTrack == g4.tracks + fTrackIDOffset

\* the particles the particle list points at
Listed == {fParticleList[k] : k \in DOMAIN fParticleList}

(***************************************************************************)
(* C21.  Active-particle membership: during an event, a particle held in   *)
(* fCurrentParticle is in the particle list; a track with nonzero proper   *)
(* time and a track rejected by NotStoredPhysics is not the current        *)
(* particle when preUserTrackingAction returns, and gets no entry in       *)
(* fPrimaryTruthMap.  The code creates the record and fills                *)
(* fCurrentParticle before the two returns of lines 438 and 444.           *)
(***************************************************************************)
C21_ActiveInStore ==
  InEvent =>
    /\ hasParticle(fCurrentParticle) => fCurrentParticle.particle \in Listed
    /\ \A id \in DOMAIN hist :
         (hist[id].ProperTime # 0 \/ Excluded(hist[id])) =>
           /\ JustAdmitted(id) => ~hasParticle(fCurrentParticle)
           /\ id \notin DOMAIN fPrimaryTruthMap

(***************************************************************************)
(* C22.  Degenerate final step: when postUserTrackingAction has found the  *)
(* post-step point of the current particle without a defining process, the *)
(* track ID is not a key of the particle list, fCurrentParticle is empty,  *)
(* no end point and no entry of fPrimaryTruthMap were recorded, the        *)
(* particle is never in the retained output, and, with the dropped list    *)
(* kept and keepFullTrajectory false, the dropped list holds the particle. *)
(* The code erases the particle from the particle list, which deletes it,  *)
(* and then calls Archive on the dropped list with the deleted pointer:    *)
(* the dropped list gets a null entry and no particle.                     *)
(***************************************************************************)
C22_DegenerateEnd ==
  \A id \in DOMAIN hist :
    hist[id].ended = "degenerate" =>
      /\ id \notin OutputIDs
      /\ (lastOp = "postUserTrackingAction" /\ id = CurrentTrack) =>
           /\ id \notin DOMAIN fParticleList
           /\ ~hasParticle(fCurrentParticle)
           /\ g4.endRecorded = 0
           /\ id \notin DOMAIN fPrimaryTruthMap
           /\ (cfg.fStoreDroppedMCParticles /\ ~hist[id].keepFullTrajectory) =>
                /\ id \in DOMAIN fdroppedParticleList
                /\ fdroppedParticleList[id] # NullPtr
                /\ fdroppedParticleList[id] \in DOMAIN heap

(***************************************************************************)
(* C23.  End sample at track end: when postUserTrackingAction has found a  *)
(* defining process on the post-step point, it has added exactly one point *)
(* to a particle whose keepFullTrajectory is false and none to one whose   *)
(* keepFullTrajectory is true, and the post-step point of the last step    *)
(* has been recorded exactly once.  For a full trajectory the last step    *)
(* records it only if its process is not a StepLimiter, and the track end  *)
(* adds nothing: after a last step limited by a StepLimiter the final      *)
(* point is missing.                                                       *)
(***************************************************************************)
C23_EndSample ==
  (/\ lastOp = "postUserTrackingAction"
   /\ CurrentTrack \in DOMAIN hist
   /\ hist[CurrentTrack].ended = "normal") =>
    LET ci == fCurrentParticle
        n == heap[ci.particle].NumberTrajectoryPoints
    IN /\ ~ci.keepFullTrajectory => n = g4.pointsAtEnd + 1
       /\ (ci.keepFullTrajectory /\ ~cfg.fSparsifyTrajectories) => n = g4.pointsAtEnd
       /\ g4.endRecorded = 1

(***************************************************************************)
(* C24.  Step accumulation: once the current particle has taken a step it  *)
(* has its "Start" point, whatever keepFullTrajectory and whether or not   *)
(* the step has a defining process; and a full-trajectory particle has     *)
(* 1 + (number of its steps with a process that is not a StepLimiter)      *)
(* points.  userSteppingAction returns at line 527 when the post-step      *)
(* point has no defining process, before "Start" is recorded.              *)
(***************************************************************************)
C24_StepAccumulation ==
  (lastOp = "userSteppingAction" /\ hasParticle(fCurrentParticle)) =>
    LET n == heap[fCurrentParticle.particle].NumberTrajectoryPoints
    IN /\ n >= 1
       /\ fCurrentParticle.keepFullTrajectory => n = 1 + g4.recordable

(***************************************************************************)
(* C25.  Energy-cut ancestry: a track without G4PrimaryParticle that the   *)
(* energy cut drops and NotStoredPhysics does not match is in the ancestry *)
(* map under the end of the walk over fParentIDMap from its parent (the    *)
(* key an excluded track with the same parent gets), and is not under      *)
(* NoParticleId when that ancestor is in the particle list.  Line 361      *)
(* calls GetParentage(trackID) before line 365 enters the track in         *)
(* fParentIDMap.                                                           *)
(***************************************************************************)
C25_EnergyCutAncestry ==
  \A id \in DOMAIN hist :
    (/\ JustAdmitted(id)
     /\ hist[id].status = "energyCut"
     /\ ~Excluded(hist[id])) =>
      LET key == Ancestor(hist[id].ParentID)
      IN /\ id \in MapAt(fdroppedTracksMap, key, {})
         /\ key \in DOMAIN fParticleList =>
              id \notin MapAt(fdroppedTracksMap, NoParticleId, {})

(***************************************************************************)
(* C26.  An energy-cut drop creates no record: the call of                 *)
(* preUserTrackingAction that drops a track by the energy cut leaves the   *)
(* particle list, the dropped list, fMCTIndexMap, fMCTPrimProcessKeepMap   *)
(* and the MCParticle objects as they were and leaves no current particle, *)
(* even when the particle of the previous track was still current; and the *)
(* calls of userSteppingAction and postUserTrackingAction for that track   *)
(* change no member of the service.                                        *)
(***************************************************************************)
C26_EnergyCutNoRecord ==
  [][LET members == <<cfg, fMCLists, fCurrentParticle, heap, fParticleList,
                      fdroppedParticleList, fParentIDMap, fTargetIDMap,
                      fMCTIndexMap, fMCTPrimProcessKeepMap, fPrimaryTruthMap,
                      fMCTIndexToGeneratorMap, fNotStoredCounterUMap,
                      fdroppedTracksMap, fCurrentTrackID, fTrackIDOffset,
                      partCol_, droppedCol_, droppedPartCol_, tpassn_>>
         dropped(h, id) == id \in DOMAIN h /\ h[id].status = "energyCut"
     IN /\ (/\ lastOp' = "preUserTrackingAction"
            /\ g4'.tracks = g4.tracks + 1
            /\ dropped(hist', CurrentTrack')) =>
              /\ UNCHANGED <<fParticleList, fdroppedParticleList, fMCTIndexMap,
                             fMCTPrimProcessKeepMap, heap>>
              /\ ~hasParticle(fCurrentParticle')
        /\ (/\ g4.phase = "track"
            /\ dropped(hist, CurrentTrack)
            /\ lastOp' \in {"userSteppingAction", "postUserTrackingAction"}) =>
              UNCHANGED members]_vars

\* a track dropped by the energy cut while the particle of the track before
\* it was still current has taken a step and ended
C26_Witness ==
  /\ lastOp = "postUserTrackingAction"
  /\ g4.steps >= 1
  /\ CurrentTrack \in DOMAIN hist
  /\ hist[CurrentTrack].status = "energyCut"
  /\ hist[CurrentTrack].ended = "noParticle"
  /\ CurrentTrack - 1 \in DOMAIN hist
  /\ hist[CurrentTrack - 1].status = "stored"
  /\ hist[CurrentTrack - 1].ended = "normal"

\* the track with a G4PrimaryParticle at the root of the chain of mothers of
\* the records created in this event; NoParticleId if the chain leaves them
RECURSIVE RootPrimary(_)
RootPrimary(id) ==
  IF hist[id].primaryParticle THEN id
  ELSE LET mother == hist[id].Mother
       IN IF mother \in DOMAIN hist /\ mother < id /\ Created(hist[mother])
          THEN RootPrimary(mother)
          ELSE NoParticleId

(***************************************************************************)
(* C27.  Truth-index inheritance: the fMCTIndexMap and                     *)
(* fMCTPrimProcessKeepMap entries of a record created for a track without  *)
(* G4PrimaryParticle equal the entries of the parent the record names as   *)
(* its mother; the two maps have the same keys in every state; and the     *)
(* MCTruth index of every particle of the particle list is the index of    *)
(* the primary at the root of its chain of mothers.                        *)
(***************************************************************************)
C27_TruthIndexInheritance ==
  /\ DOMAIN fMCTIndexMap = DOMAIN fMCTPrimProcessKeepMap
  /\ \A id \in DOMAIN hist :
       (Created(hist[id]) /\ ~hist[id].primaryParticle) =>
         LET mother == hist[id].Mother
         IN /\ mother \in DOMAIN fMCTIndexMap
            /\ fMCTIndexMap[id] = fMCTIndexMap[mother]
            /\ fMCTPrimProcessKeepMap[id] = fMCTPrimProcessKeepMap[mother]
  /\ InEvent =>
       \A id \in DOMAIN fParticleList :
         LET root == RootPrimary(id)
         IN /\ root \in DOMAIN hist
            /\ fMCTIndexMap[id] =
                 IF hist[root].ppi THEN hist[root].MCTruthIndex ELSE 0

\* a retained secondary has inherited MCTruth index 1 and a true keep flag
C27_Witness ==
  /\ InEvent
  /\ \E id \in DOMAIN fParticleList :
       /\ ~hist[id].primaryParticle
       /\ fMCTIndexMap[id] = 1
       /\ fMCTPrimProcessKeepMap[id]

(***************************************************************************)
(* C28.  Keys of fParentIDMap: during an event every key of fParentIDMap   *)
(* is a track that NotStoredPhysics excluded or the energy cut dropped,    *)
(* and no key is in the particle list.  Line 379 also enters a track whose *)
(* parent is unknown and which is then created and added to the list.      *)
(***************************************************************************)
C28_ParentMapKeys ==
  InEvent =>
    \A k \in DOMAIN fParentIDMap :
      /\ k \in DOMAIN hist
      /\ Excluded(hist[k]) \/ hist[k].status = "energyCut"
      /\ k \notin DOMAIN fParticleList

(***************************************************************************)
(* C29.  Re-parenting: when a track without G4PrimaryParticle passes the   *)
(* process filter and the energy cut, its parent is in neither the         *)
(* particle list nor (with StoreDroppedMCParticles) the dropped list, and  *)
(* the walk over fParentIDMap from that parent ends at a particle of the   *)
(* particle list, then the mother of the record created is that ancestor,  *)
(* which is in the particle list when the call returns.                    *)
(***************************************************************************)
C29_Reparenting ==
  \A id \in DOMAIN hist :
    LET parent == hist[id].ParentID
    IN (/\ JustAdmitted(id)
        /\ ~hist[id].primaryParticle
        /\ ~Excluded(hist[id]) /\ ~BelowCut(hist[id])
        /\ parent \notin DOMAIN fParticleList
        /\ ~(cfg.fStoreDroppedMCParticles /\ parent \in DOMAIN fdroppedParticleList)
        /\ parent \in DOMAIN fParentIDMap
        /\ Ancestor(parent) \in DOMAIN fParticleList) =>
          /\ Created(hist[id])
          /\ heap[id].Mother = Ancestor(parent)
          /\ heap[id].Mother # parent
          /\ heap[id].Mother \in DOMAIN fParticleList

\* track 3, whose parent 2 the energy cut dropped, has been stored as a
\* daughter of the retained particle 1
C29_Witness ==
  /\ JustAdmitted(3)
  /\ hist[3].status = "stored" /\ hist[3].ParentID = 2
  /\ 2 \in DOMAIN hist /\ hist[2].status = "energyCut" /\ hist[2].ParentID = 1
  /\ 1 \in DOMAIN fParticleList
  /\ heap[3].Mother = 1

(***************************************************************************)
(* C30.  Dropped output: after an endOfEventAction that completed with     *)
(* StoreDroppedMCParticles set, the dropped-particle output holds exactly  *)
(* one reduced record for every entry of the dropped list that is not      *)
(* null, has trajectory points and has status code 1, and none for any     *)
(* other entry, whatever the number of MCTruth objects of the event.  The  *)
(* loop of lines 801-811 is inside the loop over the MCTruth objects.      *)
(***************************************************************************)
C30_DroppedOutput ==
  (lastOp = "endOfEventAction" /\ cfg.fStoreDroppedMCParticles) =>
    \A k \in DOMAIN droppedParticleList :
      LET entry == droppedParticleList[k]
          qualifies == /\ entry # <<>>
                       /\ entry[1].NumberTrajectoryPoints # 0
                       /\ entry[1].StatusCode = 1
          copies == {i \in 1..Len(droppedPartCol_) : droppedPartCol_[i].TrackId = k}
      IN Cardinality(copies) = IF qualifies THEN 1 ELSE 0

====
